---- MODULE Spec2Model ----
(***************************************************************************)
(* A model of rebin.py (HiPCTProject/rebin): re-binning a stack of 2D jp2  *)
(* slices by an integer factor along all three axes.                       *)
(*                                                                         *)
(* Arrays are sequences of rows of integers.  Floating point values are    *)
(* exact rationals: an array of numerators "num" over one denominator      *)
(* "den".  File names and paths are sequences of tokens.  The jp2 codec    *)
(* is outside the model: a file holds the array handed to the codec.       *)
(***************************************************************************)
EXTENDS Integers, Sequences, FiniteSets, TLC

\* ---------------------------------------------------------------- bounds
MaxN == 3          \* longest input stack Init draws
MaxFactor == 3     \* largest bin_factor Init draws
MaxWorkers == 2    \* largest num_workers Init draws
MaxPixel == 2      \* pixel variation of the images InitNum draws
MaxDepth == 3      \* longest input stack InitNum draws

\* ------------------------------------------------------ program constants
ZFillWidth == 6

\* ------------------------------------------------------------ arithmetic
Min(a, b) == IF a < b THEN a ELSE b

\* math.ceil(a / b) for a >= 0 and b > 0
Ceil(a, b) == IF a % b = 0 THEN a \div b ELSE (a \div b) + 1

RECURSIVE SumSeq(_)
SumSeq(s) == IF s = <<>> THEN 0 ELSE Head(s) + SumSeq(Tail(s))

RECURSIVE Pow2(_)
Pow2(n) == IF n = 0 THEN 1 ELSE 2 * Pow2(n - 1)

\* ------------------------------------------------------------ file names
DigitChars == <<"0", "1", "2", "3", "4", "5", "6", "7", "8", "9">>

\* str(z) for z >= 0: the decimal digits, most significant first
RECURSIVE Str(_)
Str(z) == IF z < 10 THEN <<DigitChars[z + 1]>>
          ELSE Str(z \div 10) \o <<DigitChars[(z % 10) + 1]>>

\* s.zfill(width): zeros on the left up to width, longer strings unchanged
RECURSIVE ZFill(_, _)
ZFill(s, width) == IF Len(s) >= width THEN s ELSE ZFill(<<"0">> \o s, width)

\* (a variant that pads a constant instead of the index)
FileNameDropsIndex(prefix, z) == prefix \o ZFill(Str(0), ZFillWidth) \o <<".jp2">>

\* f"{fname_prefix}{str(z).zfill(6)}.jp2"
FileName(prefix, z) == prefix \o ZFill(Str(z), ZFillWidth) \o <<".jp2">>

\* ---------------------------------------------------------------- arrays
Height(img) == Len(img)
Width(img) == Len(img[1])
Shape(img) == <<Height(img), Width(img)>>

Bits(dtype) == IF dtype = "uint8" THEN 8 ELSE 16

\* (a variant that divides by the bin factor, as if the slab were padded
\* with zero slices along z)
NpMeanOverFactor(slab, factor) ==
    [num |-> [r \in 1..Height(slab[1]) |-> [c \in 1..Width(slab[1]) |->
                 SumSeq([k \in 1..Len(slab) |-> slab[k][r][c]])]],
     den |-> factor]

\* np.mean(arr, axis=2) of a slab (a sequence of equally shaped images):
\* the sum over the slices present, over their number
NpMean(slab) ==
    [num |-> [r \in 1..Height(slab[1]) |-> [c \in 1..Width(slab[1]) |->
                 SumSeq([k \in 1..Len(slab) |-> slab[k][r][c]])]],
     den |-> Len(slab)]

\* the image padded with cval = 0 to a multiple of the block size
Padded(num, r, c) == IF r <= Len(num) /\ c <= Len(num[1]) THEN num[r][c] ELSE 0

\* the number of positions of block (R, C) that lie inside the image
InImage(num, factor, R, C) ==
    Cardinality({p \in (0..factor - 1) \X (0..factor - 1) :
                   /\ (R - 1) * factor + p[1] + 1 <= Len(num)
                   /\ (C - 1) * factor + p[2] + 1 <= Len(num[1])})

BlockSum(num, factor, R, C) ==
    SumSeq([k \in 1..factor * factor |->
              Padded(num, (R - 1) * factor + ((k - 1) \div factor) + 1,
                          (C - 1) * factor + ((k - 1) % factor) + 1)])

RECURSIVE Factorial(_)
Factorial(n) == IF n <= 1 THEN 1 ELSE n * Factorial(n - 1)

\* (a variant that divides every block sum by the number of its positions
\* inside the image)
DownscaleMeanOfRealPixels(arr, factor) ==
    [num |-> [R \in 1..Ceil(Len(arr.num), factor) |->
                [C \in 1..Ceil(Len(arr.num[1]), factor) |->
                   (BlockSum(arr.num, factor, R, C)
                      * Factorial(factor) * Factorial(factor))
                     \div InImage(arr.num, factor, R, C)]],
     den |-> arr.den * Factorial(factor) * Factorial(factor)]

\* skimage.transform.downscale_local_mean(arr, (factor, factor)): the image
\* is padded with zeros to whole blocks and every block sum is divided by
\* the block area
DownscaleLocalMean(arr, factor) ==
    [num |-> [R \in 1..Ceil(Len(arr.num), factor) |->
                [C \in 1..Ceil(Len(arr.num[1]), factor) |->
                   BlockSum(arr.num, factor, R, C)]],
     den |-> arr.den * factor * factor]

RebinSlabPhantomSlices(slab, factor) ==
    DownscaleLocalMean(NpMeanOverFactor(slab, factor), factor)

\* rebin_slab: the mean over z, then the mean over x/y blocks
RebinSlab(slab, factor) == DownscaleLocalMean(NpMean(slab), factor)

\* np.asarray(arr).astype(dtype): the fraction is dropped, the value kept
\* in the width of the dtype
AsType(arr, dtype) ==
    [r \in 1..Len(arr.num) |-> [c \in 1..Len(arr.num[1]) |->
        (arr.num[r][c] \div arr.den) % Pow2(Bits(dtype))]]

\* ------------------------------------------------------------------ state
VARIABLES
    directory,          \* the *.jp2 files of the input directory, sorted:
                        \* a sequence of [data, dtype]
    read_fault,         \* input indices whose jp2 file cannot be decoded
    write_fault,        \* output indices whose jp2 write fails
    bin_factor,         \* the bin_factor argument, a rational [n, d]
    num_workers,        \* the num_workers argument
    output_directory,   \* the output_directory argument (None or a path)
    fname_prefix,       \* the fname_prefix argument
    fs,                 \* the output side of the file system: per directory
                        \* path whether it exists and its files
    status,             \* where the call of rebin is
    error,              \* the exception the call raised
    enumerated,         \* directory.glob has run
    n_ims,              \* len(im_list)
    out_dir,            \* output_directory after line 131
    dtype_in,           \* j2ks[0].dtype
    output_shape,       \* (ceil(H/f), ceil(W/f), ceil(N/f))
    delayed_slab_saves, \* the delayed rebin_and_save_slab calls
    jobState,           \* per delayed call: pending, running, done, failed
    saved,              \* the paths save_jp2 has written in this call
    memory,             \* the input indices of the slices read into memory
    fs_before,          \* the file system when this call began
    prev                \* the call before this one: its output directory,
                        \* what that held before the call, its
                        \* num_workers and how it ended

vars == <<directory, read_fault, write_fault, bin_factor, num_workers, output_directory,
          fname_prefix, fs, status, error, enumerated, n_ims, out_dir,
          dtype_in, output_shape, delayed_slab_saves, jobState, saved,
          memory, fs_before, prev>>

inputs == <<directory, read_fault, write_fault, bin_factor, fname_prefix>>

plan == <<enumerated, n_ims, out_dir, dtype_in, output_shape>>

\* ----------------------------------------------------------------- inputs
None == <<>>

NoError == [type |-> "", msg |-> "", indices |-> {}]

\* the test suite's slices, and one 8-bit slice
ImgA == <<<<0, 1>>, <<2, 5>>>>
ImgB == <<<<0, 1>>, <<2, 5>>, <<10, 12>>>>
ImgD == <<<<4, 3>>, <<1, 9>>>>

SliceKinds == {[data |-> ImgA, dtype |-> "uint16"],
               [data |-> ImgB, dtype |-> "uint16"],
               [data |-> ImgD, dtype |-> "uint8"]}

\* bin_factor as a rational n/d: the integers -1..MaxFactor and the halves
BinFactors == {[n |-> k, d |-> 1] : k \in -1..MaxFactor}
              \cup {[n |-> 2 * k + 1, d |-> 2] : k \in 0..MaxFactor - 1}

Prefixes == {<<>>, <<"prefix_">>}

\* directory.parent / f"{directory.name}_bin{bin_factor}"
DerivedDir(factor) == <<"input_jp2s", "_bin", factor>>
GivenDir == <<"output_dir">>
AllDirs == {GivenDir} \cup {DerivedDir(k) : k \in 2..MaxFactor}

\* what an output directory holds before the first call: a file that is
\* none of the outputs, and outputs of earlier runs
OldImage == <<<<77>>>>
SeedNames == {<<"notes", ".txt">>}
             \cup {FileName(p, 0) : p \in Prefixes}
             \cup {FileName(p, 7) : p \in Prefixes}
Seeded == [exists |-> TRUE, files |-> [nm \in SeedNames |-> OldImage]]
Absent == [exists |-> FALSE, files |-> <<>>]

\* ---------------------------------------------------------- file system
\* (a variant that makes the directory afresh)
MkdirAfresh(f, d) == [f EXCEPT ![d] = [exists |-> TRUE, files |-> <<>>]]

\* Path.mkdir(exist_ok=True)
Mkdir(f, d) == IF f[d].exists THEN f
               ELSE [f EXCEPT ![d] = [exists |-> TRUE, files |-> <<>>]]

\* glymur.Jp2k(path, ...)[:] = image
WriteFile(f, d, nm, image) ==
    [f EXCEPT ![d].files =
        [x \in DOMAIN f[d].files \cup {nm} |->
            IF x = nm THEN image ELSE f[d].files[x]]]

\* ------------------------------------------------------------ validation
\* (a variant with < for <=)
BelowOne(bf) == bf.n < bf.d

\* bin_factor <= 1
NotAboveOne(bf) == bf.n <= bf.d
\* int(bin_factor) != bin_factor
NotIntegral(bf) == bf.n % bf.d # 0

Factor == bin_factor.n

\* lines 121-124
Validate ==
    /\ status = "Validating"
    /\ IF NotAboveOne(bin_factor)
       THEN /\ status' = "Failed"
            /\ error' = [type |-> "ValueError", msg |-> "bin_factor must be > 1",
                         indices |-> {}]
       ELSE IF NotIntegral(bin_factor)
       THEN /\ status' = "Failed"
            /\ error' = [type |-> "ValueError",
                         msg |-> "bin_factor must be an integer", indices |-> {}]
       ELSE /\ status' = "Planning"
            /\ error' = error
    /\ UNCHANGED <<memory, inputs, num_workers, output_directory, fs, plan,
                   delayed_slab_saves, jobState, saved, fs_before, prev>>

\* -------------------------------------------------------------- planning
\* (a variant that compares the widths only)
SameWidth(stack) == \A i \in 1..Len(stack) : Width(stack[i].data) = Width(stack[1].data)

\* da.stack accepts arrays of one shape
SameShape(stack) == \A i \in 1..Len(stack) : Shape(stack[i].data) = Shape(stack[1].data)

\* lines 126-151: glob, mkdir, the Jp2k objects, the shapes, da.stack
Plan ==
    /\ status = "Planning"
    /\ enumerated' = TRUE
    /\ n_ims' = Len(directory)
    /\ out_dir' = IF output_directory = None THEN DerivedDir(Factor)
                  ELSE output_directory
    /\ fs' = Mkdir(fs, out_dir')
    /\ IF Len(directory) = 0
       THEN \* j2ks[0] on the empty list
            /\ status' = "Failed"
            /\ error' = [type |-> "IndexError", msg |-> "list index out of range",
                         indices |-> {}]
            /\ UNCHANGED <<dtype_in, output_shape>>
       ELSE /\ dtype_in' = directory[1].dtype
            /\ output_shape' = <<Ceil(Height(directory[1].data), Factor),
                                 Ceil(Width(directory[1].data), Factor),
                                 Ceil(Len(directory), Factor)>>
            /\ IF SameShape(directory)
               THEN /\ status' = "Scheduling"
                    /\ error' = error
               ELSE \* da.stack of arrays of different shapes
                    /\ status' = "Failed"
                    /\ error' = [type |-> "ValueError",
                                 msg |-> "Stacked arrays must have the same shape",
                                 indices |-> {}]
    /\ UNCHANGED <<memory, inputs, num_workers, output_directory, delayed_slab_saves,
                   jobState, saved, fs_before, prev>>

\* ------------------------------------------------------------ scheduling
\* (a variant that counts the whole slabs only)
OutputIndicesFloor == 0..(n_ims \div Factor) - 1

\* range(output_shape[2])
OutputIndices == 0..output_shape[3] - 1

\* the indices volume[:, :, z * f : (z + 1) * f] selects: a slice past the
\* end of the axis stops at the end
SlabIndices(z) == {i \in 0..n_ims - 1 : z * Factor <= i /\ i < (z + 1) * Factor}

\* lines 153-166: one delayed rebin_and_save_slab per output z-index
Schedule ==
    /\ status = "Scheduling"
    /\ delayed_slab_saves' =
          [k \in 1..Cardinality(OutputIndices) |->
             [z |-> k - 1,
              slab |-> SlabIndices(k - 1),
              factor |-> Factor,
              file_path |-> FileName(fname_prefix, k - 1),
              dtype |-> dtype_in]]
    /\ jobState' = [k \in 1..Cardinality(OutputIndices) |-> "pending"]
    /\ status' = "Running"
    /\ UNCHANGED <<memory, inputs, num_workers, output_directory, fs, error, plan,
                   saved, fs_before, prev>>

\* ------------------------------------------------------------- execution
Jobs == 1..Len(delayed_slab_saves)

Running == {k \in Jobs : jobState[k] = "running"}

MinOf(S) == CHOOSE x \in S : \A y \in S : x <= y

\* np.asarray(arr): the slices of the slab, read in z order
Materialize(slab) ==
    [k \in 1..Cardinality(slab) |-> directory[MinOf(slab) + k].data]

Faulty(job) == \/ job.slab \cap read_fault # {}
               \/ job.z \in write_fault

\* the exception of the job, as the codec raised it
JobError(job) ==
    IF job.slab \cap read_fault # {}
    THEN [type |-> "CodecError", msg |-> "cannot decode slice", indices |-> {}]
    ELSE [type |-> "CodecError", msg |-> "cannot write image", indices |-> {}]

\* (a variant that starts every pending call at once)
MayStartUnbounded == status = "Running"

\* (a variant that keeps starting calls after one has failed)
MayStartAfterFailure ==
    status \in {"Running", "Failed"} /\ Cardinality(Running) < num_workers

\* compute(num_workers=...) hands a pending call to a free worker, until
\* a call has failed
MayStart == status = "Running" /\ Cardinality(Running) < num_workers

\* a worker takes the call and reads its slab into memory (line 93)
StartJob(k) ==
    /\ MayStart
    /\ jobState[k] = "pending"
    /\ jobState' = [jobState EXCEPT ![k] = "running"]
    /\ memory' = memory \cup delayed_slab_saves[k].slab
    /\ UNCHANGED <<inputs, num_workers, output_directory, fs, status, error,
                   plan, delayed_slab_saves, saved, fs_before, prev>>

\* the image rebin_and_save_slab hands to save_jp2 (lines 93-95, 69)
OutputImage(job) ==
    AsType(RebinSlab(Materialize(job.slab), job.factor), job.dtype)

\* (a variant that numbers the files in the order the calls finish)
SavePathByCompletion(k) ==
    FileName(fname_prefix, Cardinality({j \in Jobs : jobState[j] = "done"}))

\* the file_path the call was given
SavePath(k) == delayed_slab_saves[k].file_path

\* rebin_and_save_slab runs to its end (lines 94-95); its slab is unloaded
FinishJob(k) ==
    /\ jobState[k] = "running"
    /\ ~Faulty(delayed_slab_saves[k])
    /\ fs' = WriteFile(fs, out_dir, SavePath(k),
                       OutputImage(delayed_slab_saves[k]))
    /\ saved' = saved \cup {SavePath(k)}
    /\ jobState' = [jobState EXCEPT ![k] = "done"]
    /\ memory' = memory \ delayed_slab_saves[k].slab
    /\ UNCHANGED <<inputs, num_workers, output_directory, status, error, plan,
                   delayed_slab_saves, fs_before, prev>>

\* rebin_and_save_slab raises and its slab is unloaded; compute re-raises
\* the first exception it sees, and rebin does not catch it (lines 168-170)
FailJob(k) ==
    /\ jobState[k] = "running"
    /\ Faulty(delayed_slab_saves[k])
    /\ jobState' = [jobState EXCEPT ![k] = "failed"]
    /\ memory' = memory \ delayed_slab_saves[k].slab
    /\ IF status = "Running"
       THEN /\ status' = "Failed"
            /\ error' = JobError(delayed_slab_saves[k])
       ELSE UNCHANGED <<status, error>>
    /\ UNCHANGED <<inputs, num_workers, output_directory, fs, plan,
                   delayed_slab_saves, saved, fs_before, prev>>

\* compute returns, rebin returns output_directory (line 171)
Complete ==
    /\ status = "Running"
    /\ \A k \in Jobs : jobState[k] = "done"
    /\ status' = "Completed"
    /\ UNCHANGED <<memory, inputs, num_workers, output_directory, fs, error, plan,
                   delayed_slab_saves, jobState, saved, fs_before, prev>>

Ended == status \in {"Completed", "Failed"} /\ Running = {}

NoCall == [dir |-> None, num_workers |-> 0, status |-> "none",
           before |-> Absent]

\* the caller runs rebin again on the same input, with any num_workers and
\* output_directory
Rerun ==
    /\ Ended
    /\ Jobs # {}
    /\ prev = NoCall
    /\ prev' = [dir |-> out_dir, num_workers |-> num_workers, status |-> status,
                before |-> fs_before[out_dir]]
    /\ num_workers' \in 1..MaxWorkers
    /\ output_directory' \in {None, GivenDir}
    /\ fs_before' = fs
    /\ status' = "Validating"
    /\ error' = NoError
    /\ enumerated' = FALSE
    /\ n_ims' = 0
    /\ out_dir' = None
    /\ dtype_in' = ""
    /\ output_shape' = <<0, 0, 0>>
    /\ delayed_slab_saves' = <<>>
    /\ jobState' = <<>>
    /\ saved' = {}
    /\ UNCHANGED <<memory, inputs, fs>>

\* ------------------------------------------------------------------ specs
Stacks == UNION {[1..n -> SliceKinds] : n \in 0..MaxN}

\* no fault, one slice that cannot be decoded, or one output index whose
\* write fails
Faults(stack) ==
    {<<{}, {}>>} \cup {<<{i}, {}>> : i \in 0..Len(stack) - 1}
                 \cup {<<{}, {z}>> : z \in 0..(Len(stack) - 1) \div 2}

InitCall ==
    /\ status = "Validating"
    /\ error = NoError
    /\ enumerated = FALSE
    /\ n_ims = 0
    /\ out_dir = None
    /\ dtype_in = ""
    /\ output_shape = <<0, 0, 0>>
    /\ delayed_slab_saves = <<>>
    /\ jobState = <<>>
    /\ saved = {}
    /\ memory = {}
    /\ prev = NoCall

\* the first call leaves output_directory to its default; every output
\* directory is absent, or holds the files of SeedNames
Init ==
    /\ directory \in Stacks
    /\ \E ft \in Faults(directory) : read_fault = ft[1] /\ write_fault = ft[2]
    /\ bin_factor \in BinFactors
    /\ num_workers \in 1..MaxWorkers
    /\ output_directory = None
    /\ fname_prefix \in Prefixes
    /\ \E seed \in {Absent, Seeded} : fs = [d \in AllDirs |-> seed]
    /\ fs_before = fs
    /\ InitCall

Next ==
    \/ Validate
    \/ Plan
    \/ Schedule
    \/ \E k \in Jobs : StartJob(k)
    \/ \E k \in Jobs : FinishJob(k)
    \/ \E k \in Jobs : FailJob(k)
    \/ Complete
    \/ Rerun

Spec == Init /\ [][Next]_vars

\* The reduction on its own: stacks of 3x2 slices whose two blocks vary,
\* the test suite's slice [[0,1],[2,5],[10,12]] among them, with no faults
NumImage(a) == <<<<3 * a, 1>>, <<2, 5>>, <<10, 12 + a>>>>

NumStacks ==
    UNION {[1..n -> {[data |-> NumImage(a), dtype |-> "uint16"] : a \in 0..MaxPixel}]
             : n \in 1..MaxDepth}

InitNum ==
    /\ directory \in NumStacks
    /\ read_fault = {}
    /\ write_fault = {}
    /\ bin_factor \in {[n |-> k, d |-> 1] : k \in 2..MaxFactor}
    /\ num_workers \in 1..MaxWorkers
    /\ output_directory = None
    /\ fname_prefix = <<>>
    /\ fs = [d \in AllDirs |-> Absent]
    /\ fs_before = fs
    /\ InitCall

NextNum ==
    \/ Validate
    \/ Plan
    \/ Schedule
    \/ \E k \in Jobs : StartJob(k)
    \/ \E k \in Jobs : FinishJob(k)
    \/ Complete

SpecNum == InitNum /\ [][NextNum]_vars

\* ----------------------------------------------------------------- claims
\* rebin has defined its jobs
Planned == status \in {"Running", "Completed"} \/ Jobs # {}

RECURSIVE SumFn(_)
SumFn(fn) ==
    IF DOMAIN fn = {} THEN 0
    ELSE LET x == CHOOSE y \in DOMAIN fn : TRUE
         IN fn[x] + SumFn([y \in DOMAIN fn \ {x} |-> fn[y]])

\* C1: for N >= 1 slices and an integer factor f > 1, rebin defines exactly
\* one job per output index z in [0, ceil(N/f)); job z reads exactly the
\* slices [z*f, min((z+1)*f, N)); the slabs are pairwise disjoint, every
\* slice is read by exactly one job, and only the last slab may be short.
C1_SlabPartition ==
    Planned =>
        LET N == Len(directory)
            f == bin_factor.n
            K == Len(delayed_slab_saves)
        IN /\ N >= 1 /\ f > 1
           /\ K * f >= N /\ (K - 1) * f < N
           /\ \A k \in 1..K :
                 /\ delayed_slab_saves[k].z = k - 1
                 /\ delayed_slab_saves[k].slab
                      = ((k - 1) * f)..(Min(k * f, N) - 1)
                 /\ k < K => Cardinality(delayed_slab_saves[k].slab) = f
           /\ \A j, k \in 1..K :
                 j # k => delayed_slab_saves[j].slab
                            \cap delayed_slab_saves[k].slab = {}
           /\ \A i \in 0..N - 1 :
                 Cardinality({k \in 1..K : i \in delayed_slab_saves[k].slab}) = 1

\* C1's case: several jobs, the last with a short slab
C1_Witness ==
    /\ Planned
    /\ Len(delayed_slab_saves) >= 2
    /\ Len(directory) % bin_factor.n # 0

\* the number a sequence of decimal digits writes
DigitValue(ch) == CHOOSE v \in 0..9 : DigitChars[v + 1] = ch

RECURSIVE Decimal(_)
Decimal(ds) ==
    IF ds = <<>> THEN 0
    ELSE 10 * Decimal(SubSeq(ds, 1, Len(ds) - 1)) + DigitValue(ds[Len(ds)])

\* the name is <prefix><six decimal digits writing z>.jp2
NamesIndex(nm, prefix, z) ==
    /\ Len(nm) = Len(prefix) + ZFillWidth + 1
    /\ SubSeq(nm, 1, Len(prefix)) = prefix
    /\ nm[Len(nm)] = ".jp2"
    /\ \A i \in Len(prefix) + 1..Len(nm) - 1 :
          \E v \in 0..9 : DigitChars[v + 1] = nm[i]
    /\ Decimal(SubSeq(nm, Len(prefix) + 1, Len(nm) - 1)) = z

\* the name matches the pattern <prefix>*.jp2
CarriesPrefix(nm, prefix) ==
    /\ Len(nm) > Len(prefix)
    /\ SubSeq(nm, 1, Len(prefix)) = prefix
    /\ nm[Len(nm)] = ".jp2"

\* C2: a successful run on a stack of shape (H, W, N) with factor f leaves
\* exactly ceil(N/f) output files carrying the prefix, one per output index
\* z, named <prefix><six-digit zero-padded z>.jp2, pairwise distinct, each
\* image of shape ceil(H/f) x ceil(W/f).  (The files counted are those the
\* run wrote; they are all the files carrying the prefix when the output
\* directory held none before the run.)
C2_OutputFiles ==
    status = "Completed" =>
        LET N == Len(directory)
            f == bin_factor.n
            H == Height(directory[1].data)
            W == Width(directory[1].data)
            files == fs[out_dir].files
        IN /\ Cardinality(saved) * f >= N
           /\ (Cardinality(saved) - 1) * f < N
           /\ saved \subseteq DOMAIN files
           /\ \A z \in 0..Cardinality(saved) - 1 :
                 \E nm \in saved :
                    /\ NamesIndex(nm, fname_prefix, z)
                    /\ Len(files[nm]) * f >= H
                    /\ (Len(files[nm]) - 1) * f < H
                    /\ \A r \in 1..Len(files[nm]) :
                          /\ Len(files[nm][r]) * f >= W
                          /\ (Len(files[nm][r]) - 1) * f < W
           /\ (\A nm \in DOMAIN fs_before[out_dir].files :
                  ~CarriesPrefix(nm, fname_prefix))
                 => {nm \in DOMAIN files : CarriesPrefix(nm, fname_prefix)} = saved

\* C2's case: a successful run that wrote several files of a stack whose
\* height the factor does not divide
C2_Witness ==
    /\ status = "Completed"
    /\ Cardinality(saved) >= 2
    /\ Height(directory[1].data) % bin_factor.n # 0
    /\ fname_prefix # <<>>

\* the pixel of a slice, zero outside the image
PixelOrZero(img, r, c) ==
    IF r \in 1..Len(img) /\ c \in 1..Len(img[1]) THEN img[r][c] ELSE 0

\* the sum, over the slices of the job's slab and the f x f positions of
\* block (R, C), of the pixels there
BlockTotal(job, f, R, C) ==
    SumFn([t \in job.slab \X (0..f - 1) \X (0..f - 1) |->
             PixelOrZero(directory[t[1] + 1].data,
                         (R - 1) * f + t[2] + 1, (C - 1) * f + t[3] + 1)])

DoneJobs == {k \in Jobs : jobState[k] = "done"}

C4_PartialSlab ==
    \A k \in DoneJobs :
        LET job == delayed_slab_saves[k]
            img == fs[out_dir].files[job.file_path]
            f == bin_factor.n
            N == Len(directory)
        IN (k = Len(delayed_slab_saves) /\ N % f # 0) =>
              /\ Cardinality(job.slab) = N % f
              /\ \A R \in 1..Len(img) : \A C \in 1..Len(img[R]) :
                    img[R][C] = BlockTotal(job, f, R, C) \div ((N % f) * f * f)

\* C4's case: a short final slab after a full one has been reduced, and dividing by
\* bin_factor would have given another image
C4_Witness ==
    \E k \in DoneJobs :
        LET job == delayed_slab_saves[k]
            f == bin_factor.n
        IN /\ k = Len(delayed_slab_saves)
           /\ k >= 2
           /\ Cardinality(job.slab) < f
           /\ fs[out_dir].files[job.file_path][1][1]
                 # BlockTotal(job, f, 1, 1) \div (f * f * f)

\* the bin_factor argument is <= 1 or no integer
Invalid(bf) == bf.n <= bf.d \/ bf.n % bf.d # 0

Validated == status # "Validating"

\* no I/O yet: the input directory not enumerated, no output directory
\* made, no file written, no job defined
NoIO == /\ ~enumerated
        /\ fs = fs_before
        /\ saved = {}
        /\ delayed_slab_saves = <<>>
        /\ jobState = <<>>

\* C5 as claimed: for every bin_factor that is <= 1 or no integer, rebin
\* fails with a ParameterError ("bin_factor must be > 1" or "bin_factor
\* must be an integer") before any I/O.
C5_Original ==
    (Invalid(bin_factor) /\ Validated) =>
        /\ status = "Failed"
        /\ error.type = "ParameterError"
        /\ error.msg \in {"bin_factor must be > 1", "bin_factor must be an integer"}
        /\ NoIO

\* C5, amended: for every bin_factor that is <= 1 or no integer, rebin
\* fails with a ValueError, with message "bin_factor must be > 1" when
\* bin_factor <= 1 and "bin_factor must be an integer" otherwise, before
\* any I/O.
C5_ValueError ==
    (Invalid(bin_factor) /\ Validated) =>
        /\ status = "Failed"
        /\ error.type = "ValueError"
        /\ error.msg = IF bin_factor.n <= bin_factor.d
                       THEN "bin_factor must be > 1"
                       ELSE "bin_factor must be an integer"
        /\ NoIO

\* C5's case: a call with bin_factor 3/2 has been refused
C5_Witness ==
    /\ status = "Failed"
    /\ bin_factor = [n |-> 3, d |-> 2]
    /\ error.msg = "bin_factor must be an integer"
    /\ Len(directory) > 0

FaultyJobs == {k \in Jobs : Faulty(delayed_slab_saves[k])}

FilePresent(k) ==
    /\ delayed_slab_saves[k].file_path \in saved
    /\ delayed_slab_saves[k].file_path \in DOMAIN fs[out_dir].files

\* C6 as claimed: if the job of some output index fails, every other job
\* still runs to completion and its file is on disk, and only after all
\* jobs have completed or failed does rebin surface a failure, which names
\* exactly the failed output indices.
C6_Original ==
    (status = "Failed" /\ Jobs # {}) =>
        /\ \A k \in Jobs : jobState[k] \in {"done", "failed"}
        /\ \A k \in Jobs \ FaultyJobs : FilePresent(k)
        /\ error.indices = {delayed_slab_saves[k].z : k \in FaultyJobs}

\* a failed run: the exception is the codec's, as raised in the first job
\* seen to fail, and names no output index; the jobs that have failed are
\* jobs with a bad slice or a failing write, and a job with a bad slice
\* never reaches save_jp2 (line 93 comes before line 95)
FailureAsRaised ==
    (status = "Failed" /\ Jobs # {}) =>
        /\ \E k \in FaultyJobs :
              /\ jobState[k] = "failed"
              /\ error = JobError(delayed_slab_saves[k])
        /\ error.indices = {}
        /\ \A k \in Jobs : jobState[k] = "failed" => k \in FaultyJobs
        /\ \A k \in Jobs : delayed_slab_saves[k].slab \cap read_fault # {}
                              => delayed_slab_saves[k].file_path \notin saved

\* once the run has failed, a job still pending stays pending
NoStartAfterFailure ==
    (status = "Failed" /\ status' = "Failed") =>
        \A k \in Jobs : jobState[k] = "pending" => jobState'[k] = "pending"

\* C6, amended: if the job of some output index fails, rebin surfaces that
\* job's own exception as soon as the scheduler sees it: the exception
\* names no output index, no job still pending is started afterwards (only
\* jobs already running may still finish and write their files), and a
\* job that cannot read its slab writes no file.
C6_FirstFailureSurfaces == []FailureAsRaised /\ [][NoStartAfterFailure]_vars

\* C6's case: the run has failed while a job whose slab is sound is still
\* pending
C6_Witness ==
    /\ status = "Failed"
    /\ \E k \in Jobs \ FaultyJobs : jobState[k] = "pending"
    /\ \E k \in FaultyJobs : jobState[k] = "failed"
    /\ read_fault # {}

\* a second call has ended, after a first one on the same input that wrote
\* to another output directory; the two directories held the same files
\* before
TwoRunsEnded ==
    /\ prev # NoCall
    /\ Ended
    /\ Jobs # {}
    /\ out_dir # prev.dir
    /\ fs_before[out_dir] = prev.before

OutputNames == {delayed_slab_saves[k].file_path : k \in Jobs}

\* the causes of failure the call has met: a bad argument, a bad stack, a
\* failing job
KnownFailure == error.type \in {"ValueError", "IndexError", "CodecError"}

\* C8: running rebin with an output directory that already exists (also
\* when the same rebin is run again) does not fail, every file that was in
\* the directory and whose name is none of the run's output names stays in
\* place and unchanged, and the run's own outputs are written to their
\* names.
C8_ExistingDirectory ==
    (out_dir # None /\ fs_before[out_dir].exists) =>
        /\ fs[out_dir].exists
        /\ status = "Failed" => (KnownFailure /\ (Jobs = {} \/ FaultyJobs # {}))
        /\ \A nm \in DOMAIN fs_before[out_dir].files :
              /\ nm \in DOMAIN fs[out_dir].files
              /\ nm \notin saved => fs[out_dir].files[nm] = fs_before[out_dir].files[nm]
        /\ saved \subseteq OutputNames
        /\ \A k \in DoneJobs :
              /\ NamesIndex(delayed_slab_saves[k].file_path, fname_prefix, k - 1)
              /\ fs[out_dir].files[delayed_slab_saves[k].file_path]
                    = OutputImage(delayed_slab_saves[k])
        /\ status = "Completed" => DoneJobs = Jobs

\* C8's case: rebin has been run again into the directory of the first
\* run, which held other files and an old output under one of the run's
\* names
C8_Witness ==
    /\ status = "Completed"
    /\ prev # NoCall
    /\ prev.dir = out_dir
    /\ <<"notes", ".txt">> \in DOMAIN fs[out_dir].files
    /\ FileName(fname_prefix, 7) \in DOMAIN fs[out_dir].files
    /\ FileName(fname_prefix, 0) \in saved

Planning == status \in {"Validating", "Planning"}

OneShape(stack) ==
    \A i, j \in 1..Len(stack) :
        /\ Len(stack[i].data) = Len(stack[j].data)
        /\ Len(stack[i].data[1]) = Len(stack[j].data[1])

SameDtype(stack) == \A i \in 1..Len(stack) : stack[i].dtype = stack[1].dtype

\* no job defined, no file written
NothingScheduled == delayed_slab_saves = <<>> /\ jobState = <<>> /\ saved = {}

\* C9 as claimed: rebin rejects with an InputError, at planning time and
\* before any job is scheduled or any output file is written, every input
\* stack that is empty or whose slices do not all share the same height,
\* width and pixel dtype.
C9_Original ==
    (/\ ~Invalid(bin_factor)
     /\ ~Planning
     /\ (Len(directory) = 0 \/ ~OneShape(directory) \/ ~SameDtype(directory))) =>
        /\ status = "Failed"
        /\ error.type = "InputError"
        /\ NothingScheduled

\* C9, amended: rebin fails at planning time, after making the output
\* directory and before any job is scheduled or any output file is
\* written, with an IndexError for an empty stack and with a ValueError for
\* a stack whose slices do not all share the same height and width; a stack
\* whose slices differ in pixel dtype only is not rejected: its jobs are
\* scheduled and write images of the first slice's dtype.
C9_PlanningErrors ==
    (~Invalid(bin_factor) /\ ~Planning) =>
        /\ fs[out_dir].exists
        /\ Len(directory) = 0 =>
              /\ status = "Failed"
              /\ error.type = "IndexError"
              /\ NothingScheduled
        /\ (Len(directory) > 0 /\ ~OneShape(directory)) =>
              /\ status = "Failed"
              /\ error.type = "ValueError"
              /\ error.msg = "Stacked arrays must have the same shape"
              /\ NothingScheduled
        /\ (Len(directory) > 0 /\ OneShape(directory)) =>
              /\ status = "Failed" => error.type = "CodecError"
              /\ \A k \in Jobs : delayed_slab_saves[k].dtype = directory[1].dtype

\* C9's case: a stack of slices of two shapes has been refused, the output
\* directory made for it
C9_Witness ==
    /\ status = "Failed"
    /\ Len(directory) > 1
    /\ ~OneShape(directory)
    /\ error.msg = "Stacked arrays must have the same shape"
    /\ ~fs_before[out_dir].exists
    /\ fs[out_dir].exists

\* the jobs whose slab has slices in memory
Resident == {k \in Jobs : delayed_slab_saves[k].slab \cap memory # {}}

====
